---- MODULE Spec2Model ----
(***************************************************************************)
(* The EDN encoder of edn_format (src/edn_format/edn_dump.py): the string  *)
(* escaping function unicode_escape, the recursive dispatch Dumper._dump   *)
(* and the two entry points Dumper.dump and dump.                          *)
(*                                                                         *)
(* Text is a sequence of code points, a byte string a sequence of octets.  *)
(***************************************************************************)
EXTENDS Integers, Sequences, FiniteSets, TLC

VARIABLES
    fn,       \* the last operation called: "unicode_escape", "Dumper.dump", "dump"; "" before any
    string,   \* the argument of the last unicode_escape call
    obj,      \* the value handed to the last Dumper.dump / dump call
    cfg,      \* the options: the Dumper's fields, and the keyword arguments given to dump
    result    \* what the last call returned or raised

vars == <<fn, string, obj, cfg, result>>

(***************************************************************************)
(* Text is written as its code points; the comment at the end of a line    *)
(* spells the literals of that line as the source writes them.             *)
(***************************************************************************)
RECURSIVE Concat(_)
Concat(ss) == IF ss = <<>> THEN <<>> ELSE Head(ss) \o Concat(Tail(ss))

\* ' '.join(tokens)
RECURSIVE Join(_)
Join(ss) ==
    IF ss = <<>> THEN <<>>
    ELSE IF Len(ss) = 1 THEN Head(ss)
    ELSE Head(ss) \o <<32>> \o Join(Tail(ss))  \* ' '

\* Lexicographic order of two sequences of integers (Python's str and bytes order).
RECURSIVE SeqLess(_, _)
SeqLess(a, b) ==
    IF b = <<>> THEN FALSE
    ELSE IF a = <<>> THEN TRUE
    ELSE IF Head(a) # Head(b) THEN Head(a) < Head(b)
    ELSE SeqLess(Tail(a), Tail(b))

HexChars == <<48, 49, 50, 51, 52, 53, 54, 55, 56, 57, 97, 98, 99, 100, 101, 102>>  \* '0123456789abcdef'

RECURSIVE HexDigits(_)
HexDigits(n) ==
    IF n < 16 THEN <<HexChars[n + 1]>>
    ELSE HexDigits(n \div 16) \o <<HexChars[(n % 16) + 1]>>

RECURSIVE DecDigits(_)
DecDigits(n) ==
    IF n < 10 THEN <<HexChars[n + 1]>>
    ELSE DecDigits(n \div 10) \o <<HexChars[(n % 10) + 1]>>

\* Left padding with zeros to a minimum width (format specs 04x, 02d, ...).
RECURSIVE ZeroPad(_, _)
ZeroPad(s, width) == IF Len(s) >= width THEN s ELSE ZeroPad(<<48>> \o s, width)  \* '0'

(***************************************************************************)
(* unicode_escape                                                          *)
(***************************************************************************)
\* The character class of the ESCAPE pattern: [\x00-\x1f\\"\b\f\n\r\t]
\* The class without the double quote.
ESCAPE_noquote(c) == c \in 0..31 \/ c \in {92, 8, 12, 10, 13, 9}
ESCAPE(c) == c \in 0..31 \/ c \in {92, 34, 8, 12, 10, 13, 9}

\* '{0:04x}'.format(i)
\* Two hex digits instead of four.
Format04x_2digits(i) == ZeroPad(HexDigits(i), 2)
Format04x(i) == ZeroPad(HexDigits(i), 4)

\* The dict literal, then setdefault for every code point below 0x20.
ESCAPE_DCT_named ==
    (92 :> <<92, 92>>) @@ (34 :> <<92, 34>>) @@  \* '\\\\' '\\"'
    (8  :> <<92, 98>>)  @@ (12 :> <<92, 102>>)  @@  \* '\\b' '\\f'
    (10 :> <<92, 110>>)  @@ (13 :> <<92, 114>>)  @@  \* '\\n' '\\r'
    (9  :> <<92, 116>>)  \* '\\t'

ESCAPE_DCT ==
    [c \in (0..31) \cup DOMAIN ESCAPE_DCT_named |->
        IF c \in DOMAIN ESCAPE_DCT_named THEN ESCAPE_DCT_named[c]
        ELSE <<92, 117>> \o Format04x(c)]  \* '\\u'

\* ESCAPE.sub(replace, string)
RECURSIVE ESCAPE_sub(_)
ESCAPE_sub(s) ==
    IF s = <<>> THEN <<>>
    ELSE (IF ESCAPE(Head(s)) THEN ESCAPE_DCT[Head(s)] ELSE <<Head(s)>>)
         \o ESCAPE_sub(Tail(s))

unicode_escape(s) == <<34>> \o ESCAPE_sub(s) \o <<34>>  \* '"' '"'

(***************************************************************************)
(* Python values.  A value is [t |-> runtime type, v |-> payload]:         *)
(*   NoneType <<>>        bool BOOLEAN          int Int                    *)
(*   float    halves      Decimal <<coefficient, decimal places>>          *)
(*   Keyword/Symbol name  bytes octets          str code points            *)
(*   tuple, list, ImmutableList, set, frozenset: elements, iteration order *)
(*   dict, ImmutableDict: <<key, value>> pairs in iteration order          *)
(*   Fraction <<numerator, denominator>>        UUID Int                   *)
(*   datetime <<y, m, d, H, M, S, us, tz>>, tz "UTC" or "naive"            *)
(*   date <<y, m, d>>     TaggedElement literal text                       *)
(*   object, complex: types the encoder does not know; payload is repr()   *)
(***************************************************************************)
Val(t, v) == [t |-> t, v |-> v]

\* The classes of type(obj).__mro__ the dispatch can name.
Bases(t) ==
    CASE t = "bool" -> {"bool", "int"}
      [] t = "datetime" -> {"datetime", "date"}
      [] OTHER -> {t}

isinstance(o, classes) == Bases(o.t) \cap classes # {}

\* What a call returns, or the exception it raises.
\* type is the type of the returned object, or type(obj) of the object an
\* unsupported-type error names; repr is that object's repr().
Return(text) == [ok |-> TRUE, val |-> text, exc |-> "", type |-> "str", repr |-> <<>>]
Raise(exc, type, repr) == [ok |-> FALSE, val |-> <<>>, exc |-> exc, type |-> type, repr |-> repr]

IntText(n) == IF n < 0 THEN <<45>> \o DecDigits(-n) ELSE DecDigits(n)  \* '-'

\* repr() of a float holding h halves: 3 is 1.5, 2 is 1.0
FloatText(h) == IntText(h \div 2) \o <<46>> \o (IF h % 2 = 0 THEN <<48>> ELSE <<53>>)  \* '.' '0' '5'

RECURSIVE Pow10(_)
Pow10(k) == IF k = 0 THEN 1 ELSE 10 * Pow10(k - 1)

\* str() of a non-negative Decimal with the given number of decimal places
DecimalText(d) ==
    IF d[2] = 0 THEN DecDigits(d[1])
    ELSE DecDigits(d[1] \div Pow10(d[2])) \o <<46>>  \* '.'
         \o ZeroPad(DecDigits(d[1] % Pow10(d[2])), d[2])

\* repr() of a bytes object (Python 3): b'...' with \xNN for non-printable octets
ByteRepr(b) ==
    IF b = 92 THEN <<92, 92>>  \* '\\\\'
    ELSE IF b = 39 THEN <<92, 39>>  \* "\\'"
    ELSE IF b >= 32 /\ b <= 126 THEN <<b>>
    ELSE <<92, 120>> \o ZeroPad(HexDigits(b), 2)  \* '\\x'

BytesRepr(bs) ==
    <<98, 39>> \o Concat([i \in DOMAIN bs |-> ByteRepr(bs[i])]) \o <<39>>  \* "b'" "'"

\* date.isoformat()
DateText(d) ==
    ZeroPad(DecDigits(d[1]), 4) \o <<45>> \o ZeroPad(DecDigits(d[2]), 2)  \* '-'
    \o <<45>> \o ZeroPad(DecDigits(d[3]), 2)  \* '-'

\* str() of a uuid.UUID: 32 hex digits grouped 8-4-4-4-12
UUIDText(n) ==
    LET h == ZeroPad(HexDigits(n), 32)
    IN  SubSeq(h, 1, 8) \o <<45>> \o SubSeq(h, 9, 12) \o <<45>>  \* '-' '-'
        \o SubSeq(h, 13, 16) \o <<45>> \o SubSeq(h, 17, 20) \o <<45>>  \* '-' '-'
        \o SubSeq(h, 21, 32)

\* Keyword.__str__ and Symbol.__str__ (edn_lex): ":name" and "name".  The
\* name is formatted with '{}', so a bytes name shows as its repr.
NameText(name) == IF name.t = "bytes" THEN BytesRepr(name.v) ELSE name.v
KeywordText(name) == <<58>> \o NameText(name)  \* ':'
SymbolText(name) == NameText(name)

\* TaggedElement.__str__ (edn_parse): the stored literal form.
TaggedElementText(lit) == lit

\* str(obj) / unicode(obj) / '{}'.format(obj) on Python 3, for the scalar types.
PyStr(o) ==
    CASE o.t = "NoneType" -> <<78, 111, 110, 101>>  \* 'None'
      [] o.t = "bool" -> IF o.v THEN <<84, 114, 117, 101>> ELSE <<70, 97, 108, 115, 101>>  \* 'True' 'False'
      [] o.t = "int" -> IntText(o.v)
      [] o.t = "float" -> FloatText(o.v)
      [] o.t = "Decimal" -> DecimalText(o.v)
      [] o.t = "Keyword" -> KeywordText(o.v)
      [] o.t = "Symbol" -> SymbolText(o.v)
      [] o.t = "bytes" -> BytesRepr(o.v)
      [] o.t = "str" -> o.v
      [] o.t = "Fraction" -> IntText(o.v[1]) \o <<47>> \o IntText(o.v[2])  \* '/'
      [] o.t = "date" -> DateText(o.v)
      [] o.t = "UUID" -> UUIDText(o.v)
      [] o.t = "TaggedElement" -> TaggedElementText(o.v)
      [] o.t \in {"object", "complex"} -> o.v

\* repr(obj) and type(obj) as the error message shows them.
PyRepr(o) == PyStr(o)
PyType(o) == o.t

(***************************************************************************)
(* Codecs: bytes.decode(string_encoding) and str.encode(output_encoding),  *)
(* strict error handling, for "utf-8" (code points below 0x800) and        *)
(* "ascii".                                                                *)
(***************************************************************************)
DecodeError == Raise("UnicodeDecodeError", "", <<>>)
EncodeError == Raise("UnicodeEncodeError", "", <<>>)

\* The code points of a byte string, left to right; -1 stands where the
\* bytes stop being valid in the encoding.
RECURSIVE DecodedPoints(_, _)
DecodedPoints(bs, encoding) ==
    IF bs = <<>> THEN <<>>
    ELSE IF bs[1] < 128 THEN <<bs[1]>> \o DecodedPoints(Tail(bs), encoding)
    ELSE IF encoding = "ascii" THEN <<-1>>
    ELSE IF bs[1] >= 194 /\ bs[1] <= 223 /\ Len(bs) >= 2 /\ bs[2] >= 128 /\ bs[2] <= 191
         THEN <<(bs[1] - 192) * 64 + (bs[2] - 128)>> \o DecodedPoints(Tail(Tail(bs)), encoding)
    ELSE <<-1>>

decode(bs, encoding) ==
    LET points == DecodedPoints(bs, encoding)
    IN  IF \E i \in DOMAIN points : points[i] = -1 THEN DecodeError ELSE Return(points)

\* The bytes of one code point in UTF-8.
EncodedPoint(c) == IF c < 128 THEN <<c>> ELSE <<192 + (c \div 64), 128 + (c % 64)>>

\* Every encoding treated as ASCII.
encode_ascii_only(s, encoding) ==
    IF \E i \in DOMAIN s : s[i] >= 128 THEN EncodeError ELSE Return(s)

encode(s, encoding) ==
    IF encoding = "ascii" /\ \E i \in DOMAIN s : s[i] >= 128 THEN EncodeError
    ELSE Return(Concat([i \in DOMAIN s |-> EncodedPoint(s[i])]))

(***************************************************************************)
(* sorted()                                                                *)
(***************************************************************************)
\* Python 3 ordering of the element types a set is given here: numbers
\* among themselves, str with str, bytes with bytes; everything else raises
\* TypeError on "<".
Numeric(o) == o.t \in {"bool", "int", "float"}
NumHalves(o) ==
    CASE o.t = "bool" -> IF o.v THEN 2 ELSE 0
      [] o.t = "int" -> 2 * o.v
      [] o.t = "float" -> o.v

Orderable(a, b) ==
    \/ Numeric(a) /\ Numeric(b)
    \/ a.t = "str" /\ b.t = "str"
    \/ a.t = "bytes" /\ b.t = "bytes"

PyLess(a, b) ==
    IF Numeric(a) THEN NumHalves(a) < NumHalves(b) ELSE SeqLess(a.v, b.v)

\* a == b in Python: numbers by value, everything else by type and payload.
PyEq(a, b) == IF Numeric(a) /\ Numeric(b) THEN NumHalves(a) = NumHalves(b) ELSE a = b

KeyLess(p, q) == SeqLess(PyStr(p[1]), PyStr(q[1]))

\* The comparison a sort uses: by str() of the key for the pairs of a map,
\* by "<" for the elements of a set.
Less(by, x, y) == IF by = "key" THEN KeyLess(x, y) ELSE PyLess(x, y)

\* Stable insertion of x behind every element that is not greater than it.
RECURSIVE InsertSorted(_, _, _)
InsertSorted(x, sorted, by) ==
    IF sorted = <<>> THEN <<x>>
    ELSE IF Less(by, x, Head(sorted)) THEN <<x>> \o sorted
    ELSE <<Head(sorted)>> \o InsertSorted(x, Tail(sorted), by)

RECURSIVE StableSort(_, _)
StableSort(xs, by) ==
    IF xs = <<>> THEN <<>>
    ELSE InsertSorted(xs[Len(xs)], StableSort(SubSeq(xs, 1, Len(xs) - 1), by), by)

\* sorted(obj) on the elements of a set: a sort has to compare across every
\* split of the elements, so it raises as soon as two of them do not order.
sorted_set(elems) ==
    IF \E i, j \in DOMAIN elems : i # j /\ ~Orderable(elems[i], elems[j])
    THEN Raise("TypeError", "", <<>>)
    ELSE Return(StableSort(elems, "lt"))

\* sorted(pairs, key=lambda p: str(p[0]))
\* The pairs left in iteration order.
sorted_pairs_unsorted(pairs) == pairs
sorted_pairs(pairs) == StableSort(pairs, "key")


(***************************************************************************)
(* The interpreter the module runs on.  Line 21 sets __PY3 and aliases     *)
(* long, basestring and unicode to int, str and str; the model is of a     *)
(* Python 3 interpreter.                                                   *)
(***************************************************************************)
PY3 == TRUE
basestring == "str"
long == "int"

DEFAULT_INPUT_ENCODING == "utf-8"
DEFAULT_OUTPUT_ENCODING == "utf-8"

\* None, and the truth value of an encoding name in "if self.output_encoding:"
None == "None"
Truthy(x) == x # None /\ x # ""

(***************************************************************************)
(* class Dumper.  self is the record of the fields __init__ stores.        *)
(***************************************************************************)
Dumper(string_encoding, output_encoding, keyword_keys, sort_keys, sort_sets, pretty) ==
    [string_encoding |-> string_encoding, output_encoding |-> output_encoding,
     keyword_keys |-> keyword_keys, sort_keys |-> sort_keys,
     sort_sets |-> sort_sets, pretty |-> pretty]

\* pyrfc3339.generate(obj, microseconds=True): refuses a naive datetime,
\* and writes a UTC one as YYYY-MM-DDTHH:MM:SS.ffffffZ
generate(d) ==
    IF d[8] = "naive" THEN Raise("ValueError", "", <<>>)
    ELSE Return(DateText(d) \o <<84>> \o ZeroPad(DecDigits(d[4]), 2) \o <<58>>  \* 'T' ':'
                \o ZeroPad(DecDigits(d[5]), 2) \o <<58>> \o ZeroPad(DecDigits(d[6]), 2)  \* ':'
                \o <<46>> \o ZeroPad(DecDigits(d[7]), 6) \o <<90>>)  \* '.' 'Z'

\* ((Keyword(k) if isinstance(k, (bytes, basestring)) else k, v) for k, v in pairs)
KeywordKey(k) == IF isinstance(k, {"bytes", basestring}) THEN Val("Keyword", k) ELSE k

keyword_pairs(pairs) == [i \in DOMAIN pairs |-> <<KeywordKey(pairs[i][1]), pairs[i][2]>>]

\* itertools.chain.from_iterable(pairs)
chain(pairs) == Concat([i \in DOMAIN pairs |-> <<pairs[i][1], pairs[i][2]>>])

\* The first exception a left-to-right evaluation raises.
FirstError(rs) == rs[CHOOSE i \in DOMAIN rs : ~rs[i].ok /\ \A j \in 1..(i - 1) : rs[j].ok]

\* The unknown object rendered as nil instead of raising.
NotImplementedError_silent(o) == Return(<<110, 105, 108>>)  \* 'nil'
NotImplementedError(o) == Raise("NotImplementedError", PyType(o), PyRepr(o))

RECURSIVE _dump(_, _)
RECURSIVE _dump_seq(_, _)
RECURSIVE dispatch(_, _)

\* ' '.join([self._dump(obj) for obj in objs])
_dump_seq(self, objs) ==
    LET rs == [i \in DOMAIN objs |-> _dump(self, objs[i])]
    IN  IF \E i \in DOMAIN rs : ~rs[i].ok THEN FirstError(rs)
        ELSE Return(Join([i \in DOMAIN rs |-> rs[i].val]))

\* '<open>{}<close>'.format(self._dump_seq(objs))
Wrapped(open, r, close) == IF r.ok THEN Return(open \o r.val \o close) ELSE r

\* The body of _dump: the isinstance checks in source order, first match wins.
dispatch(self, o) ==
    IF o.t = "NoneType" THEN Return(<<110, 105, 108>>)  \* 'nil'
    ELSE IF isinstance(o, {"bool"})
         THEN Return(IF o.v THEN <<116, 114, 117, 101>> ELSE <<102, 97, 108, 115, 101>>)  \* 'true' 'false'
    ELSE IF isinstance(o, {"int", long, "float"}) THEN Return(PyStr(o))
    ELSE IF isinstance(o, {"Decimal"}) THEN Return(PyStr(o) \o <<77>>)  \* 'M'
    ELSE IF isinstance(o, {"Keyword", "Symbol"}) THEN Return(PyStr(o))
    ELSE IF isinstance(o, {"bytes"})
         THEN LET d == decode(o.v, self.string_encoding)
              IN  IF d.ok THEN Return(unicode_escape(d.val)) ELSE d
    ELSE IF isinstance(o, {basestring}) THEN Return(unicode_escape(o.v))
    ELSE IF isinstance(o, {"tuple"}) THEN Wrapped(<<40>>, _dump_seq(self, o.v), <<41>>)  \* '(' ')'
    ELSE IF isinstance(o, {"list", "ImmutableList"})
         THEN Wrapped(<<91>>, _dump_seq(self, o.v), <<93>>)  \* '[' ']'
    ELSE IF isinstance(o, {"set"}) \/ isinstance(o, {"frozenset"})
         THEN LET s == IF self.sort_sets THEN sorted_set(o.v) ELSE Return(o.v)
              IN  IF s.ok THEN Wrapped(<<35, 123>>, _dump_seq(self, s.val), <<125>>) ELSE s  \* '#{' '}'
    ELSE IF isinstance(o, {"dict"}) \/ isinstance(o, {"ImmutableDict"})
         THEN LET items == o.v
                  sorted == IF self.sort_keys THEN sorted_pairs(items) ELSE items
                  pairs == IF self.keyword_keys THEN keyword_pairs(sorted) ELSE sorted
              IN  Wrapped(<<123>>, _dump_seq(self, chain(pairs)), <<125>>)  \* '{' '}'
    ELSE IF isinstance(o, {"Fraction"})
         THEN Return(IntText(o.v[1]) \o <<47>> \o IntText(o.v[2]))  \* '/'
    ELSE IF isinstance(o, {"datetime"})
         THEN LET g == generate(o.v)
              IN  IF g.ok THEN Return(<<35, 105, 110, 115, 116, 32, 34>> \o g.val \o <<34>>)  \* '#inst "' '"'
                  ELSE g
    ELSE IF isinstance(o, {"date"})
         THEN Return(<<35, 105, 110, 115, 116, 32, 34>> \o DateText(o.v) \o <<34>>)  \* '#inst "' '"'
    ELSE IF isinstance(o, {"UUID"})
         THEN Return(<<35, 117, 117, 105, 100, 32, 34>> \o PyStr(o) \o <<34>>)  \* '#uuid "' '"'
    ELSE IF isinstance(o, {"TaggedElement"}) THEN Return(PyStr(o))
    ELSE NotImplementedError(o)

\* The numeric check tried before everything else.
_dump_numbers_first(self, o) ==
    IF isinstance(o, {"int", long, "float"}) THEN Return(PyStr(o)) ELSE dispatch(self, o)

_dump(self, o) == dispatch(self, o)

\* The text returned whether or not an output encoding is set.
Dumper_dump_never_encodes(self, o) == _dump(self, o)

\* Dumper.dump: the text, encoded when the Dumper has an output encoding.
Dumper_dump(self, o) ==
    LET s == _dump(self, o)
    IN  IF ~s.ok THEN s
        ELSE IF Truthy(self.output_encoding)
             THEN LET e == encode(s.val, self.output_encoding)
                  IN  IF e.ok THEN [e EXCEPT !.type = "bytes"] ELSE e
        ELSE s

\* The module-level dump: a Dumper whose output encoding is None on Python 3.
dump(o, string_encoding, output_encoding, keyword_keys, sort_keys, sort_sets, pretty) ==
    Dumper_dump(Dumper(string_encoding, IF PY3 THEN None ELSE output_encoding,
                       keyword_keys, sort_keys, sort_sets, pretty), o)

(***************************************************************************)
(* The inputs.                                                             *)
(***************************************************************************)
MaxStrLen == 2
MaxLen == 2

\* Every code point the ESCAPE pattern names, and some it does not:
\* a n u 0, DEL and e-acute.
Alphabet == (0..31) \cup {34, 92, 97, 110, 117, 48, 127, 233}
Strings == UNION {[1..n -> Alphabet] : n \in 0..MaxStrLen}

Str(cs) == Val("str", cs)
NilV == Val("NoneType", <<>>)
TrueV == Val("bool", TRUE)
FalseV == Val("bool", FALSE)
IntV(n) == Val("int", n)
KeywordV(cs) == Val("Keyword", Str(cs))
BytesA == Val("bytes", <<97>>)  \* 'a'
BytesBad == Val("bytes", <<255>>)
BytesEAcute == Val("bytes", <<195, 169>>)
StrEAcute == Val("str", <<233>>)
StrQuoteNewline == Val("str", <<34, 10>>)
Aware == Val("datetime", <<2012, 5, 12, 14, 30, 0, 7, "UTC">>)
Naive == Val("datetime", <<2012, 5, 12, 14, 30, 0, 7, "naive">>)
Date == Val("date", <<2012, 5, 12>>)
Tagged == Val("TaggedElement", <<35, 109, 121, 97, 112, 112, 47, 70, 111, 111, 32, 53>>)  \* '#myapp/Foo 5'
Object == Val("object", <<60, 111, 98, 106, 101, 99, 116, 62>>)  \* '<object>'
Complex == Val("complex", <<49, 106>>)  \* '1j'

Scalars ==
    {NilV, TrueV, FalseV, IntV(1), IntV(12), IntV(-3), Val("float", 3),
     Val("Decimal", <<150, 2>>), KeywordV(<<97>>), KeywordV(<<99>>),  \* 'a' 'c'
     Val("Symbol", Str(<<102, 111, 111>>)), BytesA, BytesBad, BytesEAcute,  \* 'foo'
     Str(<<97>>), Str(<<98>>), Str(<<49>>), StrEAcute, StrQuoteNewline,  \* 'a' 'b' '1'
     Val("Fraction", <<3, 2>>), Aware, Naive, Date, Val("UUID", 255), Tagged,
     Object, Complex}

\* Elements of sequences, elements of sets, keys and values of maps.
Elems == {IntV(1), TrueV, Str(<<97>>), BytesBad, Object}  \* 'a'
SetElems == {IntV(1), IntV(2), TrueV, Str(<<97>>), Str(<<98>>), NilV, Object}  \* 'a' 'b'
Keys == {Str(<<97>>), Str(<<49>>), IntV(1), KeywordV(<<97>>), KeywordV(<<99>>), BytesA}  \* 'a' '1' 'a' 'c'
MapVals == {Str(<<97>>), Object}  \* 'a'

SeqsOf(S) == UNION {[1..n -> S] : n \in 0..MaxLen}
\* A set or the keys of a dict hold no two equal objects.
Distinct(s) == \A i, j \in DOMAIN s : i # j => ~PyEq(s[i], s[j])
SetsOf(S) == {s \in SeqsOf(S) : Distinct(s)}
MapsOf(K, V) == {ps \in SeqsOf(K \X V) : Distinct([i \in DOMAIN ps |-> ps[i][1]])}

Flat ==
    {Val(t, s) : t \in {"tuple", "list"}, s \in SeqsOf(Elems)}
    \cup {Val("set", s) : s \in SetsOf(SetElems)}
    \cup {Val("dict", ps) : ps \in MapsOf(Keys, MapVals)}

\* Containers in containers.
InnerMap == Val("dict", <<<<Str(<<98>>), IntV(1)>>, <<Str(<<97>>), Str(<<97>>)>>>>)  \* 'b' 'a' 'a'
Nested ==
    {Val("list", <<InnerMap>>),
     Val("list", <<IntV(1), Val("tuple", <<Val("list", <<Object>>)>>)>>),
     Val("ImmutableList", <<Str(<<97>>), InnerMap>>),  \* 'a'
     Val("frozenset", <<Str(<<98>>), Str(<<97>>)>>),  \* 'b' 'a'
     Val("set", <<Val("tuple", <<IntV(1), Object>>)>>),
     Val("tuple", <<Val("set", <<IntV(2), IntV(1)>>), Val("set", <<Str(<<97>>), IntV(1)>>)>>),  \* 'a'
     Val("dict", <<<<Str(<<107>>), InnerMap>>, <<KeywordV(<<97>>), Val("list", <<Str(<<97>>)>>)>>>>),  \* 'k' 'a' 'a'
     Val("dict", <<<<Val("tuple", <<Object>>), IntV(1)>>>>),
     Val("dict", <<<<IntV(1), Val("dict", <<<<BytesA, Val("set", <<Complex>>)>>>>)>>>>),
     Val("ImmutableDict", <<<<Str(<<98>>), IntV(1)>>, <<KeywordV(<<99>>), IntV(2)>>>>),  \* 'b' 'c'
     Val("ImmutableDict", <<<<StrEAcute, Aware>>>>),
     Val("list", <<Naive, Object>>)}

Values == Scalars \cup Flat \cup Nested

Encodings == {"utf-8", "ascii"}
Cfgs ==
    {Dumper(se, oe, kk, sk, ss, p) :
        se \in Encodings, oe \in {None} \cup Encodings,
        kk \in BOOLEAN, sk \in BOOLEAN, ss \in BOOLEAN, p \in BOOLEAN}

Pending == [ok |-> FALSE, val |-> <<>>, exc |-> "pending", type |-> "", repr |-> <<>>]

(***************************************************************************)
(* The state machine.  The encoder keeps nothing between calls beyond the   *)
(* Dumper's options, so a behaviour is one call on one input.              *)
(***************************************************************************)
InitEscape ==
    /\ fn = ""
    /\ string = <<>>
    /\ obj = NilV
    /\ cfg = Dumper(DEFAULT_INPUT_ENCODING, None, FALSE, FALSE, FALSE, FALSE)
    /\ result = Pending

\* unicode_escape(string)
UnicodeEscape ==
    /\ fn = ""
    /\ \E s \in Strings :
        /\ fn' = "unicode_escape"
        /\ string' = s
        /\ result' = Return(unicode_escape(s))
        /\ UNCHANGED <<obj, cfg>>

\* A Dumper has been constructed with the options cfg.
InitDump ==
    /\ fn = ""
    /\ string = <<>>
    /\ obj = NilV
    /\ cfg \in Cfgs
    /\ result = Pending

\* Dumper(**cfg).dump(o)
DumperDump ==
    /\ fn = ""
    /\ \E o \in Values :
        /\ fn' = "Dumper.dump"
        /\ obj' = o
        /\ result' = Dumper_dump(cfg, o)
        /\ UNCHANGED <<string, cfg>>

\* dump(o, **cfg)
ModuleDump ==
    /\ fn = ""
    /\ \E o \in Values :
        /\ fn' = "dump"
        /\ obj' = o
        /\ result' = dump(o, cfg.string_encoding, cfg.output_encoding, cfg.keyword_keys,
                          cfg.sort_keys, cfg.sort_sets, cfg.pretty)
        /\ UNCHANGED <<string, cfg>>

NextEscape == UnicodeEscape
NextDump == DumperDump \/ ModuleDump

SpecEscape == InitEscape /\ [][NextEscape]_vars
SpecDump == InitDump /\ [][NextDump]_vars

(***************************************************************************)
(* Vocabulary of the properties.                                           *)
(***************************************************************************)
Called == fn \in {"Dumper.dump", "dump"}

\* The call of the state, made again on another input or with other options.
Call(f, c, o) ==
    IF f = "dump"
    THEN dump(o, c.string_encoding, c.output_encoding, c.keyword_keys, c.sort_keys,
              c.sort_sets, c.pretty)
    ELSE Dumper_dump(c, o)

\* The text of a successful result: the bytes of a byte result read back.
TextOf(r) ==
    IF r.ok /\ r.type = "bytes" THEN decode(r.val, cfg.output_encoding).val ELSE r.val

IsContainer(o) == o.t \in {"tuple", "list", "ImmutableList", "set", "frozenset"}
IsMap(o) == o.t \in {"dict", "ImmutableDict"}

\* o and every value nested in it, at any depth.
RECURSIVE SubValues(_)
SubValues(o) ==
    {o} \cup
    IF IsContainer(o) THEN UNION {SubValues(o.v[i]) : i \in DOMAIN o.v}
    ELSE IF IsMap(o)
         THEN UNION {SubValues(o.v[i][1]) \cup SubValues(o.v[i][2]) : i \in DOMAIN o.v}
    ELSE {}

\* The runtime types of the closed variant set.
ClosedTypes ==
    {"NoneType", "bool", "int", "float", "Decimal", "Fraction", "str", "bytes", "Symbol",
     "Keyword", "list", "ImmutableList", "tuple", "set", "frozenset", "dict",
     "ImmutableDict", "datetime", "date", "UUID", "TaggedElement"}
Unsupported(o) == o.t \notin ClosedTypes

Orders(n) == {p \in [1..n -> 1..n] : \A i, j \in 1..n : i # j => p[i] # p[j]}
Permuted(xs, p) == [i \in DOMAIN xs |-> xs[p[i]]]

IsHex(c) == (c >= 48 /\ c <= 57) \/ (c >= 97 /\ c <= 102)
HexValue(c) == IF c <= 57 THEN c - 48 ELSE c - 87

\* The character a named escape letter stands for: \\ \" \b \f \n \r \t
NamedEscapes == (92 :> 92) @@ (34 :> 34) @@ (98 :> 8) @@ (102 :> 12) @@ (110 :> 10)
                @@ (114 :> 13) @@ (116 :> 9)

\* Reading the escape sequences of the text between the quotes, left to
\* right.  ok is FALSE when the text holds a literal control character, an
\* unescaped quote, or a backslash that starts no escape.
RECURSIVE Unescape(_)
Unescape(t) ==
    LET bad == [ok |-> FALSE, val |-> <<>>]
        then(c, rest) == LET r == Unescape(rest)
                         IN  IF r.ok THEN [ok |-> TRUE, val |-> <<c>> \o r.val] ELSE bad
    IN  IF t = <<>> THEN [ok |-> TRUE, val |-> <<>>]
        ELSE IF t[1] = 92
             THEN IF Len(t) < 2 THEN bad
                  ELSE IF t[2] = 117
                       THEN IF Len(t) >= 6 /\ \A i \in 3..6 : IsHex(t[i])
                            THEN then(4096 * HexValue(t[3]) + 256 * HexValue(t[4])
                                      + 16 * HexValue(t[5]) + HexValue(t[6]),
                                      SubSeq(t, 7, Len(t)))
                            ELSE bad
                  ELSE IF t[2] \in DOMAIN NamedEscapes
                       THEN then(NamedEscapes[t[2]], SubSeq(t, 3, Len(t)))
                  ELSE bad
        ELSE IF t[1] = 34 \/ t[1] < 32 THEN bad
        ELSE then(t[1], Tail(t))

Body(t) == SubSeq(t, 2, Len(t) - 1)

\* The escape the contract gives one character: its length, and whether a
\* piece of text is it.
EscapeLen(c) ==
    IF c \in {92, 34, 8, 12, 10, 13, 9} THEN 2 ELSE IF c < 32 THEN 6 ELSE 1
IsEscapeOf(c, e) ==
    IF c \in {92, 34, 8, 12, 10, 13, 9}
    THEN e[1] = 92 /\ e[2] \in DOMAIN NamedEscapes /\ NamedEscapes[e[2]] = c
    ELSE IF c < 32
         THEN /\ e[1] = 92 /\ e[2] = 117
              /\ \A i \in 3..6 : IsHex(e[i])
              /\ 4096 * HexValue(e[3]) + 256 * HexValue(e[4]) + 16 * HexValue(e[5])
                 + HexValue(e[6]) = c
    ELSE e = <<c>>

RECURSIVE EscapedCharwise(_, _)
EscapedCharwise(s, t) ==
    IF s = <<>> THEN t = <<>>
    ELSE LET n == EscapeLen(Head(s))
         IN  /\ Len(t) >= n
             /\ IsEscapeOf(Head(s), SubSeq(t, 1, n))
             /\ EscapedCharwise(Tail(s), SubSeq(t, n + 1, Len(t)))

(***************************************************************************)
(* unicode_escape                                                          *)
(***************************************************************************)
\* C1: unicode_escape(s) is s between two double quotes with every
\* character replaced on its own: the seven named characters by their
\* two-character escape, every other code point below 0x20 by \u and exactly
\* four hex digits, anything else by itself; so the result holds no literal
\* control character and no unescaped quote or backslash, and "" is "".
C1_EscapeCharwise ==
    fn = "unicode_escape" =>
        LET out == result.val
        IN  /\ result.ok
            /\ Len(out) >= 2 /\ out[1] = 34 /\ out[Len(out)] = 34
            /\ EscapedCharwise(string, Body(out))
            /\ \A i \in DOMAIN out : out[i] >= 32
            /\ Unescape(Body(out)).ok
            /\ (string = <<>> => out = <<34, 34>>)

C1_Witness ==
    /\ fn = "unicode_escape"
    /\ string = <<10, 1>>
    /\ result.val = <<34, 92, 110, 92, 117, 48, 48, 48, 49, 34>>  \* '"\\n\\u0001"'

\* C2: escaping is lossless: reading the escape sequences between the outer
\* quotes gives back the input exactly (so no two strings share a literal).
C2_EscapeLossless ==
    fn = "unicode_escape" => Unescape(Body(result.val)) = [ok |-> TRUE, val |-> string]

C2_Witness ==
    /\ fn = "unicode_escape"
    /\ string = <<92, 117>>
    /\ result.val = <<34, 92, 92, 117, 34>>  \* '"\\\\u"'
    /\ Unescape(Body(result.val)).val = <<92, 117>>

(***************************************************************************)
(* Dumper.dump and dump                                                    *)
(***************************************************************************)
\* Causes of failure other than an unsupported type.
Undecodable(o) == \E u \in SubValues(o) : u.t = "bytes" /\ ~decode(u.v, cfg.string_encoding).ok
HasNaive(o) == \E u \in SubValues(o) : u.t = "datetime" /\ u.v[8] = "naive"
Unsortable(o) ==
    /\ cfg.sort_sets
    /\ \E u \in SubValues(o) :
          /\ u.t \in {"set", "frozenset"}
          /\ \E i, j \in DOMAIN u.v : i # j /\ ~Orderable(u.v[i], u.v[j])
CarriesUnsupported(r, o) ==
    \E u \in SubValues(o) : Unsupported(u) /\ r.type = PyType(u) /\ r.repr = PyRepr(u)

\* C3 as stated: a value of an unsupported type anywhere in the input makes
\* the call fail with the unsupported-type error carrying that value's type
\* and representation, and no text is returned.
C3_Original ==
    (Called /\ \E u \in SubValues(obj) : Unsupported(u)) =>
        /\ ~result.ok /\ result.val = <<>>
        /\ result.exc = "NotImplementedError"
        /\ CarriesUnsupported(result, obj)

\* C3 amended: the call fails and returns no text; the error is the
\* unsupported-type error carrying the type and representation of an
\* unsupported value of the input, unless a byte sequence that does not
\* decode, a datetime without timezone or a sort_sets comparison fails the
\* call first with its own error.
C3_UnsupportedFails ==
    (Called /\ \E u \in SubValues(obj) : Unsupported(u)) =>
        /\ ~result.ok /\ result.val = <<>>
        /\ result.exc \in {"NotImplementedError", "UnicodeDecodeError", "ValueError", "TypeError"}
        /\ result.exc = "NotImplementedError" => CarriesUnsupported(result, obj)
        /\ result.exc = "UnicodeDecodeError" => Undecodable(obj)
        /\ result.exc = "ValueError" => HasNaive(obj)
        /\ result.exc = "TypeError" => Unsortable(obj)

C3_Witness ==
    /\ Called
    /\ obj = Val("list", <<IntV(1), Val("tuple", <<Val("list", <<Object>>)>>)>>)
    /\ ~result.ok /\ result.exc = "NotImplementedError"
    /\ result.type = "object" /\ result.repr = Object.v

\* C4: with sort_keys, a map encodes to the same text whatever order its
\* pairs are iterated in.
C4_SortKeysDeterministic ==
    (Called /\ cfg.sort_keys /\ IsMap(obj)) =>
        \A p \in Orders(Len(obj.v)) : Call(fn, cfg, Val(obj.t, Permuted(obj.v, p))) = result

\* The token a map key is emitted as.
KeyToken(self, k) ==
    IF self.keyword_keys /\ k.t \in {"str", "bytes"} THEN <<58>> \o NameText(k)  \* ':'
    ELSE _dump(self, k).val
\* The same, with only raw strings coerced and every other key left as it
\* is without keyword_keys.
KeyTokenStrOnly(self, k) ==
    IF self.keyword_keys /\ k.t = "str" THEN <<58>> \o k.v  \* ':'
    ELSE _dump([self EXCEPT !.keyword_keys = FALSE], k).val

\* The literal of a map whose pairs are emitted in the given order.
MapLiteral(self, pairs, Tok(_, _)) ==
    <<123>>  \* '{'
    \o Join(Concat([i \in DOMAIN pairs |->
                       <<Tok(self, pairs[i][1]), _dump(self, pairs[i][2]).val>>]))
    \o <<125>>  \* '}'

EmittedOrder(self, m) == IF self.sort_keys THEN sorted_pairs(m.v) ELSE m.v
NoMap(o) == \A u \in SubValues(o) : ~IsMap(u)
NoKeywordKeys(c) == [c EXCEPT !.keyword_keys = FALSE]

\* C5: with keyword_keys every raw-string key of every map, nested
\* or not, is emitted as colon + string, every other key and every value as
\* without the option; a value holding no map is unaffected by the option.
C5_KeywordKeys ==
    (Called /\ cfg.keyword_keys) =>
        /\ \A m \in SubValues(obj) :
              (IsMap(m) /\ _dump(cfg, m).ok) =>
                  _dump(cfg, m).val = MapLiteral(cfg, EmittedOrder(cfg, m), KeyTokenStrOnly)
        /\ NoMap(obj) => result = Call(fn, NoKeywordKeys(cfg), obj)

\* C6 as stated: both entry points return the text encoded to bytes when
\* an output encoding is given, and the text otherwise.
C6_Original ==
    (Called /\ result.ok) =>
        IF Truthy(cfg.output_encoding)
        THEN result.type = "bytes" /\ result = [encode(_dump(cfg, obj).val, cfg.output_encoding) EXCEPT !.type = "bytes"]
        ELSE result.type = "str" /\ result = _dump(cfg, obj)

\* C6 amended: Dumper.dump does so; the module-level dump, on Python 3,
\* builds its Dumper without an output encoding and returns text whatever
\* output encoding it is given.
C6_OutputEncoding ==
    (Called /\ result.ok) =>
        IF fn = "Dumper.dump" /\ Truthy(cfg.output_encoding)
        THEN result.type = "bytes" /\ result = [encode(_dump(cfg, obj).val, cfg.output_encoding) EXCEPT !.type = "bytes"]
        ELSE result.type = "str" /\ result = _dump(cfg, obj)

C6_Witness ==
    /\ fn = "Dumper.dump" /\ cfg.output_encoding = "utf-8"
    /\ obj = StrEAcute
    /\ result.ok /\ result.type = "bytes" /\ result.val = <<34, 195, 169, 34>>

\* Whether the text is the literal of the map's pairs taken in the order p.
EmitsInOrder(text, m, p) == text = MapLiteral(cfg, Permuted(m.v, p), KeyToken)
NonDecreasing(ts) == \A i, j \in DOMAIN ts : i < j => ~SeqLess(ts[j], ts[i])

\* C7 as stated: with keyword_keys and sort_keys the pairs of a map come out
\* in non-decreasing order of the key tokens as emitted after coercion.
C7_Original ==
    (Called /\ cfg.keyword_keys /\ cfg.sort_keys /\ IsMap(obj) /\ result.ok) =>
        \E p \in Orders(Len(obj.v)) :
            /\ EmitsInOrder(TextOf(result), obj, p)
            /\ NonDecreasing([i \in DOMAIN obj.v |-> KeyToken(cfg, obj.v[p[i]][1])])

\* C7 amended: sorting is applied first and coercion second: the pairs come
\* out in non-decreasing order of str() of the keys as given in the input,
\* keys with the same str() in input order, and the keys are coerced after.
C7_SortThenKeyword ==
    (Called /\ cfg.keyword_keys /\ cfg.sort_keys /\ IsMap(obj) /\ result.ok) =>
        \E p \in Orders(Len(obj.v)) :
            /\ EmitsInOrder(TextOf(result), obj, p)
            /\ NonDecreasing([i \in DOMAIN obj.v |-> PyStr(obj.v[p[i]][1])])
            /\ \A i, j \in DOMAIN obj.v :
                  (i < j /\ PyStr(obj.v[p[i]][1]) = PyStr(obj.v[p[j]][1])) => p[i] < p[j]

C7_Witness ==
    /\ Called /\ cfg.keyword_keys /\ cfg.sort_keys
    /\ obj = Val("dict", <<<<Str(<<97>>), Str(<<97>>)>>, <<KeywordV(<<99>>), Str(<<97>>)>>>>)  \* 'a' 'a' 'c' 'a'
    /\ result.ok
    /\ TextOf(result) = <<123, 58, 99, 32, 34, 97, 34, 32, 58, 97, 32, 34, 97, 34, 125>>  \* '{:c "a" :a "a"}'

AllClosed(o) == \A u \in SubValues(o) : ~Unsupported(u)

\* C8: the dispatch is total over the closed variant set and the first
\* matching check decides: a bool is true/false and never digits, a byte
\* sequence is decoded and then escaped, a tuple is a ( ) list, a datetime
\* is written with its time of day.
C8_Dispatch ==
    Called =>
        /\ AllClosed(obj) => result.exc # "NotImplementedError"
        /\ (obj.t = "bool" /\ cfg.output_encoding = None) =>
              /\ result.ok /\ result.type = "str"
              /\ result.val = (IF obj.v THEN <<116, 114, 117, 101>>  \* 'true'
                               ELSE <<102, 97, 108, 115, 101>>)  \* 'false'
        /\ result.ok =>
              LET text == TextOf(result)
              IN  /\ obj.t = "bool" =>
                        text = (IF obj.v THEN <<116, 114, 117, 101>>  \* 'true'
                                ELSE <<102, 97, 108, 115, 101>>)  \* 'false'
                  /\ obj.t = "bytes" =>
                        /\ text[1] = 34 /\ text[Len(text)] = 34
                        /\ Unescape(Body(text))
                              = [ok |-> TRUE, val |-> decode(obj.v, cfg.string_encoding).val]
                  /\ obj.t = "tuple" => text[1] = 40 /\ text[Len(text)] = 41
                  /\ obj.t = "datetime" =>
                        text = <<35, 105, 110, 115, 116, 32, 34>> \o DateText(obj.v)  \* '#inst "'
                               \o <<84, 49, 52, 58, 51, 48, 58, 48, 48, 46, 48, 48, 48, 48, 48, 55, 90, 34>>  \* 'T14:30:00.000007Z"'

C8_Witness ==
    /\ Called
    /\ obj = Val("tuple", <<TrueV, IntV(1)>>)
    /\ result.ok
    /\ TextOf(result) = <<40, 116, 114, 117, 101, 32, 49, 41>>  \* '(true 1)'

\* C9 as stated: the only failures are the unsupported-type error and the
\* comparison failure of sort_sets; a value built from the closed variant
\* set alone, whose sets sort, always encodes.
C9_Original ==
    Called =>
        /\ ~result.ok => result.exc \in {"NotImplementedError", "TypeError"}
        /\ (AllClosed(obj) /\ ~Unsortable(obj)) => result.ok

\* C9 amended: besides those two, a byte sequence that does not decode
\* under string_encoding, a datetime without timezone and a text the output
\* encoding cannot represent fail the call with their own errors; a value
\* of the closed variant set with none of these always encodes, and each
\* error has its cause in the input.
C9_ErrorPaths ==
    Called =>
        /\ ~result.ok =>
              result.exc \in {"NotImplementedError", "TypeError", "UnicodeDecodeError",
                              "ValueError", "UnicodeEncodeError"}
        /\ result.exc = "NotImplementedError" => CarriesUnsupported(result, obj)
        /\ result.exc = "TypeError" => Unsortable(obj)
        /\ result.exc = "UnicodeDecodeError" => Undecodable(obj)
        /\ result.exc = "ValueError" => HasNaive(obj)
        /\ result.exc = "UnicodeEncodeError" =>
              /\ fn = "Dumper.dump" /\ cfg.output_encoding = "ascii"
              /\ \E i \in DOMAIN _dump(cfg, obj).val : _dump(cfg, obj).val[i] >= 128
        /\ (/\ AllClosed(obj) /\ ~Unsortable(obj) /\ ~Undecodable(obj) /\ ~HasNaive(obj)
            /\ \/ fn = "dump" \/ cfg.output_encoding # "ascii"
               \/ \A i \in DOMAIN _dump(cfg, obj).val : _dump(cfg, obj).val[i] < 128)
           => result.ok

C9_Witness ==
    /\ Called /\ cfg.string_encoding = "utf-8"
    /\ obj = Val("list", <<IntV(1), BytesBad>>)
    /\ ~result.ok /\ result.exc = "UnicodeDecodeError"

\* C10: a map with pairwise distinct keys is emitted as one key token
\* followed by its value token for each pair, and the key tokens are
\* pairwise distinct.
C10_UniqueKeyTokens ==
    (Called /\ IsMap(obj) /\ result.ok) =>
        \E p \in Orders(Len(obj.v)) :
            /\ EmitsInOrder(TextOf(result), obj, p)
            /\ \A i, j \in DOMAIN obj.v :
                  i # j => KeyToken(cfg, obj.v[i][1]) # KeyToken(cfg, obj.v[j][1])

====
